---- MODULE Spec2Model ----
(***************************************************************************)
(* Model of argser (src/argser.py): the field-introspection ->             *)
(* flag-synthesis -> parse -> value-binding pipeline behind parse_args.    *)
(*                                                                         *)
(* Python strings are sequences of one-character strings, so that          *)
(* splitting, prefixing and comparing names is computed as the code        *)
(* computes it.  Python values are records of one shape (kind, number,     *)
(* string, items), Python dicts are insertion-ordered sequences of         *)
(* <<key, value>> pairs.                                                   *)
(***************************************************************************)
EXTENDS Integers, Sequences, FiniteSets, TLC

VARIABLES
    root_cls,   \* the structure definition parse_args is called on
    heap,       \* the explicit Arg/PosArg objects of the classes, by identity
    objs,       \* the instances of the structure definitions, by identity
    pc,         \* the position of the current parse_args call
    call,       \* the current call: its options and tokens, the objects at its start
    read,       \* (args_cls, args, sub_commands) as _read_args returned it
    built,      \* the underlying parser as _make_parser built it
    parsed,     \* what parser.parse_args returned
    results,    \* the Result Instances returned so far, with the objects then
    inf,        \* the Type/Arity Inferencer on its own
    sc          \* the Shortcut Assigner on its own

main == <<root_cls, heap, objs, pc, call, read, built, parsed, results>>

vars == <<root_cls, heap, objs, pc, call, read, built, parsed, results, inf, sc>>

---------------------------------------------------------------------------
(* Python strings                                                          *)

DigitChars == <<"0", "1", "2", "3", "4", "5", "6", "7", "8", "9">>

RECURSIVE PyStr(_)
\* str(n) for a non-negative int, as in f"{a}{used[a]}"
PyStr(n) ==
    IF n < 10 THEN <<DigitChars[n + 1]>>
    ELSE PyStr(n \div 10) \o <<DigitChars[(n % 10) + 1]>>

RECURSIVE split(_, _)
\* s.split(sep) for a one-character separator: always at least one segment
split(s, sep) ==
    IF \A i \in 1..Len(s) : s[i] # sep THEN <<s>>
    ELSE LET i == CHOOSE j \in 1..Len(s) :
                      s[j] = sep /\ \A k \in 1..(j - 1) : s[k] # sep
         IN  <<SubSeq(s, 1, i - 1)>> \o split(SubSeq(s, i + 1, Len(s)), sep)

RECURSIVE join(_)
\* ''.join(parts)
join(parts) ==
    IF parts = <<>> THEN <<>> ELSE Head(parts) \o join(Tail(parts))

startswith(s, p) ==
    Len(s) >= Len(p) /\ SubSeq(s, 1, Len(p)) = p

---------------------------------------------------------------------------
(* Python dicts: insertion-ordered <<key, value>> pairs                    *)

DictKeys(d) == [i \in 1..Len(d) |-> d[i][1]]

DictHas(d, k) == \E i \in 1..Len(d) : d[i][1] = k

DictGet(d, k, dflt) ==
    IF DictHas(d, k) THEN d[CHOOSE i \in 1..Len(d) : d[i][1] = k][2] ELSE dflt

\* d[k] = v: an existing key keeps its position, a new key goes last
DictSet(d, k, v) ==
    IF DictHas(d, k)
    THEN [i \in 1..Len(d) |-> IF d[i][1] = k THEN <<k, v>> ELSE d[i]]
    ELSE Append(d, <<k, v>>)

---------------------------------------------------------------------------
(* Python values and types                                                 *)

Val(k, n, s, l) == [k |-> k, n |-> n, s |-> s, l |-> l]

None == Val("None", 0, <<>>, <<>>)
PyInt(n) == Val("int", n, <<>>, <<>>)
PyBool(b) == Val("bool", IF b THEN 1 ELSE 0, <<>>, <<>>)
PyString(s) == Val("str", 0, s, <<>>)
PyList(l) == Val("list", 0, <<>>, l)
\* a reference to an object (an instance of a structure definition)
PyRef(id) == Val("obj", id, <<>>, <<>>)

True == PyBool(TRUE)
False == PyBool(FALSE)

\* bool(v): None, 0, '', [] and False are falsy
Truthy(v) ==
    CASE v.k = "None" -> FALSE
      [] v.k = "int" -> v.n # 0
      [] v.k = "bool" -> v.n = 1
      [] v.k = "str" -> Len(v.s) > 0
      [] v.k = "list" -> Len(v.l) > 0
      [] OTHER -> TRUE

\* a type: a plain class (origin "") or a typing generic such as List[int]
Type(name, origin, args) == [name |-> name, origin |-> origin, args |-> args]

Class(name) == Type(name, "", <<>>)

NoneType == Class("NoneType")
str == Class("str")
int == Class("int")
bool == Class("bool")
list == Class("list")
List == Type("List", "list", <<>>)
ListOf(t) == Type("List", "list", <<t>>)
SequenceOf(t) == Type("Sequence", "Sequence", <<t>>)
DictOf(k, v) == Type("Dict", "dict", <<k, v>>)

\* isinstance(t, type): typing generics are not classes
IsClass(t) == t.origin = ""

\* type(v)
TypeOf(v) ==
    CASE v.k = "None" -> NoneType
      [] v.k = "int" -> int
      [] v.k = "bool" -> bool
      [] v.k = "str" -> str
      [] v.k = "list" -> list
      [] OTHER -> Class("object")

\* the classes list is a subclass of
ListBases == {"list", "Sequence", "object"}

\* has len(): lists and strings
Sized(v) == v.k \in {"list", "str"}

PyLen(v) == IF v.k = "list" THEN Len(v.l) ELSE Len(v.s)

\* type(v[0]) of a non-empty list or string
FirstType(v) == IF v.k = "list" THEN TypeOf(v.l[1]) ELSE str

---------------------------------------------------------------------------
(* Type/arity inference                                                    *)

is_list_like_type(t) ==
    t.origin # "" /\ t.origin \in ListBases

\* len(default or []): a truthy default without len() raises TypeError
DefaultLen(default) ==
    IF ~Truthy(default) THEN [err |-> FALSE, n |-> 0]
    ELSE IF Sized(default) THEN [err |-> FALSE, n |-> PyLen(default)]
    ELSE [err |-> TRUE, n |-> 0]

Inferred(typ, nargs, err) == [typ |-> typ, nargs |-> nargs, err |-> err]

\* nargs is "" for None
_get_nargs(typ, default) ==
    LET n == DefaultLen(default) IN
    IF typ = list THEN
        IF n.err THEN Inferred(typ, "", TRUE)
        ELSE IF n.n = 0 THEN Inferred(str, "*", FALSE)
        ELSE Inferred(FirstType(default), "+", FALSE)
    ELSE IF is_list_like_type(typ) THEN
        LET elem == IF typ.args # <<>> /\ IsClass(typ.args[1])
                    THEN typ.args[1] ELSE str
        IN  IF n.err THEN Inferred(elem, "", TRUE)
            ELSE Inferred(elem, IF n.n = 0 THEN "*" ELSE "+", FALSE)
    ELSE Inferred(typ, "", FALSE)

\* mutant: a list default decides the type before the annotation is read
_get_type_and_nargs_default_first(ann, field_name, default) ==
    LET typ == IF default.k = "list" THEN list
               ELSE DictGet(ann, field_name,
                            IF default = None THEN str ELSE TypeOf(default))
    IN  _get_nargs(typ, default)

_get_type_and_nargs(ann, field_name, default) ==
    LET typ == DictGet(ann, field_name,
                       IF default = None THEN str ELSE TypeOf(default))
    IN  _get_nargs(typ, default)

---------------------------------------------------------------------------
(* Argument descriptors                                                    *)

DEFAULT_HELP_FORMAT == "{type}, default: {default!r}. {message}"

\* Arg.__init__ / PosArg.__init__.  id is the identity of an explicit
\* descriptor object of a class (0 for one synthesized during a call); pos
\* tells a PosArg; dest <<>> and type NoneType stand for None, nargs "" for
\* None, aliases <<>> for ().
NewArg(id, pos, dest, default, type, nargs, aliases, bool_flag, one_dash, keep_default_help, help_format) ==
    [id |-> id, pos |-> pos, dest |-> dest, type |-> type,
     default |-> default, nargs |-> nargs, aliases |-> aliases,
     action |-> "store",
     bool_flag |-> IF pos THEN FALSE ELSE bool_flag,
     one_dash |-> one_dash, keep_default_help |-> keep_default_help,
     help_format |-> help_format]

---------------------------------------------------------------------------
(* Shortcut Assigner                                                       *)

Count(used, k) == DictGet(used, k, 0)

Incr(used, k) == DictSet(used, k, Count(used, k) + 1)

RECURSIVE UsedDestsFrom(_, _, _)
UsedDestsFrom(args, i, used) ==
    IF i > Len(args) THEN used
    ELSE UsedDestsFrom(args, i + 1, Incr(used, args[i].dest))

\* mutant: the first loop is missing, no destination counts as used
UsedDests_none(args) == <<>>

\* the first loop of _make_shortcuts: every destination counts as used once
UsedDests(args) == UsedDestsFrom(args, 1, <<>>)

\* ''.join(map(lambda e: e[0], dest.split('_'))): e[0] of an empty segment
\* raises IndexError
Initials(dest) ==
    LET parts == split(dest, "_") IN
    IF \E i \in 1..Len(parts) : parts[i] = <<>>
    THEN [err |-> TRUE, a |-> <<>>]
    ELSE [err |-> FALSE, a |-> join([i \in 1..Len(parts) |-> <<parts[i][1]>>])]

\* mutant: a descriptor is skipped only when it already has its candidate
HasAliases_candidate(arg) ==
    \E n \in 1..Len(arg.aliases) : arg.aliases[n] = Initials(arg.dest).a

\* arg.aliases != ()
HasAliases(arg) == arg.aliases # <<>>

RECURSIVE ShortcutLoop(_, _, _)
\* the second loop; a raise leaves the descriptors handled so far mutated
ShortcutLoop(args, i, used) ==
    IF i > Len(args) THEN [args |-> args, err |-> FALSE]
    ELSE IF HasAliases(args[i]) THEN ShortcutLoop(args, i + 1, used)
    ELSE LET c == Initials(args[i].dest) IN
         IF c.err THEN [args |-> args, err |-> TRUE]
         ELSE IF c.a = args[i].dest THEN ShortcutLoop(args, i + 1, used)
         ELSE LET used2 == Incr(used, c.a)
                  n == Count(used2, c.a)
                  a == IF n > 1 THEN c.a \o PyStr(n) ELSE c.a
              IN  ShortcutLoop([args EXCEPT ![i].aliases = <<a>>], i + 1, used2)

_make_shortcuts(args) == ShortcutLoop(args, 1, UsedDests(args))

---------------------------------------------------------------------------
(* Structure definitions                                                   *)

\* class attributes that are not plain values: an explicit Arg/PosArg object
\* (by identity), an inner class
ArgRef(id) == Val("arg", id, <<>>, <<>>)
InnerClass == Val("type", 0, <<>>, <<>>)

\* the three ways a class body declares a field
AnnOnly(key, t) ==
    [key |-> key, has_ann |-> TRUE, ann |-> t, has_val |-> FALSE, val |-> None]
AnnAssign(key, t, v) ==
    [key |-> key, has_ann |-> TRUE, ann |-> t, has_val |-> TRUE, val |-> v]
Assign(key, v) ==
    [key |-> key, has_ann |-> FALSE, ann |-> NoneType, has_val |-> TRUE, val |-> v]

RECURSIVE AnnotationsFrom(_, _)
AnnotationsFrom(decl, i) ==
    IF i > Len(decl) THEN <<>>
    ELSE (IF decl[i].has_ann THEN << <<decl[i].key, decl[i].ann>> >> ELSE <<>>)
         \o AnnotationsFrom(decl, i + 1)

RECURSIVE AttributesFrom(_, _)
AttributesFrom(decl, i) ==
    IF i > Len(decl) THEN <<>>
    ELSE (IF decl[i].has_val THEN << <<decl[i].key, decl[i].val>> >> ELSE <<>>)
         \o AttributesFrom(decl, i + 1)

DunderModule == <<"_", "_", "m", "o", "d", "u", "l", "e", "_", "_">>

\* a class: its body in declaration order, its __annotations__ and its
\* __dict__ (which starts with dunder entries), both in definition order
ClassDef(name, decl) ==
    [name |-> name, decl |-> decl,
     annotations |-> AnnotationsFrom(decl, 1),
     dict |-> << <<DunderModule, PyString(<<"m">>)>> >> \o AttributesFrom(decl, 1)]

---------------------------------------------------------------------------
(* The structure definitions of the model, their explicit descriptor       *)
(* objects and their sub-command instances                                 *)

CUSTOM_HELP_FORMAT == "{message}"

\* the explicit Arg/PosArg objects of the classes below, as constructed
ArgObjects ==
    << \* 1: foo = Arg(dest='bar', default=4)
       NewArg(1, FALSE, <<"b", "a", "r">>, PyInt(4), NoneType, "", <<>>,
              TRUE, FALSE, TRUE, DEFAULT_HELP_FORMAT),
       \* 2: q = Arg(type=bool, bool_flag=False)
       NewArg(2, FALSE, <<>>, None, bool, "", <<>>,
              FALSE, FALSE, TRUE, DEFAULT_HELP_FORMAT),
       \* 3: p = PosArg()
       NewArg(3, TRUE, <<>>, None, NoneType, "", <<>>,
              TRUE, FALSE, TRUE, DEFAULT_HELP_FORMAT),
       \* 4: x = Arg(aliases=('a',))
       NewArg(4, FALSE, <<>>, None, NoneType, "", << <<"a">> >>,
              TRUE, FALSE, TRUE, DEFAULT_HELP_FORMAT),
       \* 5: y = Arg(default=True, bool_flag=False, keep_default_help=False)
       NewArg(5, FALSE, <<>>, True, NoneType, "", <<>>,
              FALSE, FALSE, FALSE, DEFAULT_HELP_FORMAT),
       \* 6: e = Arg(default=0, one_dash=True, help_format='{message}')
       NewArg(6, FALSE, <<>>, PyInt(0), NoneType, "", <<>>,
              TRUE, TRUE, TRUE, CUSTOM_HELP_FORMAT),
       \* 7: a_b = Arg(default=1)
       NewArg(7, FALSE, <<>>, PyInt(1), NoneType, "", <<>>,
              TRUE, FALSE, TRUE, DEFAULT_HELP_FORMAT) >>

\* the instances sub_command(cls) created when the classes were defined, by
\* identity: each is the class attribute of one sub-command field
SubInstances ==
    << [cls |-> "X", dict |-> <<>>],        \* 1: Cmd.a
       [cls |-> "Y", dict |-> <<>>],        \* 2: Cmd.b
       [cls |-> "Inner", dict |-> <<>>],    \* 3: Nested.a
       [cls |-> "Leaf", dict |-> <<>>],     \* 4: Inner.x
       [cls |-> "Inner2", dict |-> <<>>],   \* 5: RootCmd.root
       [cls |-> "Leaf2", dict |-> <<>>] >>  \* 6: Inner2.x

ClassNames ==
    {"Plain", "Flags", "Explicit", "Positional", "Clash", "Under", "Cmd", "X",
     "Y", "Nested", "Inner", "Leaf", "RootCmd", "Inner2", "Leaf2", "Repeat"}

ClassBody(name) ==
    CASE name = "Plain" ->
           << Assign(<<"n">>, PyInt(1)),
              AnnOnly(<<"t">>, str),
              AnnOnly(<<"v", "b">>, bool),
              AnnAssign(<<"l", "s">>, ListOf(int), PyList(<<>>)),
              Assign(<<"M", "e", "t", "a">>, InnerClass) >>
      [] name = "Flags" ->
           << AnnAssign(<<"u", "p">>, bool, None),
              Assign(<<"o", "n">>, True),
              Assign(<<"o", "f", "f">>, False),
              AnnAssign(<<"s", "5">>, int, PyString(<<"5">>)) >>
      [] name = "Explicit" ->
           << Assign(<<"f", "o", "o">>, ArgRef(1)),
              Assign(<<"q">>, ArgRef(2)),
              Assign(<<"a", "_", "b">>, PyList(<<PyInt(1)>>)) >>
      [] name = "Positional" ->
           << Assign(<<"p">>, ArgRef(3)),
              Assign(<<"n">>, PyInt(1)) >>
      [] name = "Clash" ->
           << Assign(<<"x">>, ArgRef(4)),
              Assign(<<"a", "b">>, PyInt(1)) >>
      [] name = "Under" ->
           << Assign(<<"n">>, PyInt(1)),
              Assign(<<"a", "_">>, PyInt(1)) >>
      [] name = "Cmd" ->
           << Assign(<<"y">>, ArgRef(5)),
              Assign(<<"a">>, PyRef(1)),
              AnnOnly(<<"w">>, bool),
              Assign(<<"b">>, PyRef(2)) >>
      [] name = "X" ->
           << Assign(<<"n">>, PyInt(1)),
              Assign(<<"e">>, ArgRef(6)),
              AnnOnly(<<"w">>, bool) >>
      [] name = "Y" ->
           << Assign(<<"m">>, PyInt(2)) >>
      [] name = "Nested" ->
           << Assign(<<"a">>, PyRef(3)) >>
      [] name = "Inner" ->
           << Assign(<<"x">>, PyRef(4)),
              Assign(<<"k">>, PyInt(0)) >>
      [] name = "Leaf" ->
           << Assign(<<"q">>, PyInt(1)) >>
      [] name = "RootCmd" ->
           << Assign(<<"r", "o", "o", "t">>, PyRef(5)) >>
      [] name = "Inner2" ->
           << Assign(<<"x">>, PyRef(6)) >>
      [] name = "Leaf2" ->
           << Assign(<<"r">>, PyInt(1)) >>
      [] name = "Repeat" ->
           << Assign(<<"a", "_", "b">>, ArgRef(7)),
              Assign(<<"a", "_", "b", "c">>, PyInt(2)) >>

Classes == [name \in ClassNames |-> ClassDef(name, ClassBody(name))]

\* the classes parse_args is called on
RootClasses ==
    {"Plain", "Flags", "Explicit", "Positional", "Clash", "Under", "Cmd",
     "Nested", "RootCmd", "Repeat"}

---------------------------------------------------------------------------
(* Field Reader                                                            *)

RECURSIVE AnnotatedOnly(_, _, _)
\* {k: None for k in ann if k not in fields_with_value}
AnnotatedOnly(ann, i, fields_with_value) ==
    IF i > Len(ann) THEN <<>>
    ELSE (IF DictHas(fields_with_value, ann[i][1]) THEN <<>>
          ELSE << <<ann[i][1], None>> >>)
         \o AnnotatedOnly(ann, i + 1, fields_with_value)

RECURSIVE FieldsWithValue(_, _, _)
\* the loop of _get_fields: built-ins and inner classes are skipped
FieldsWithValue(fields_with_value, i, fields) ==
    IF i > Len(fields_with_value) THEN fields
    ELSE LET key == fields_with_value[i][1]
             value == fields_with_value[i][2]
         IN  IF startswith(key, <<"_", "_">>) \/ value.k = "type"
             THEN FieldsWithValue(fields_with_value, i + 1, fields)
             ELSE FieldsWithValue(fields_with_value, i + 1, DictSet(fields, key, value))

_get_fields(args_cls, ann) ==
    FieldsWithValue(args_cls.dict, 1, AnnotatedOnly(ann, 1, args_cls.dict))

\* what _read_args returns: (args_cls, args, sub_commands), sub_commands an
\* ordered dict name -> tree; err when type inference raised
Tree(args_cls, args, sub_commands, err) ==
    [cls |-> args_cls, args |-> args, subs |-> sub_commands, err |-> err]

\* value.dest = value.dest or key ... value.help_format = help_format
ReadExplicit(value, key, inferred, override, bool_flag, one_dash, keep_default_help, help_format) ==
    LET filled ==
            [value EXCEPT
                !.dest = IF value.dest # <<>> THEN value.dest ELSE key,
                !.type = IF value.type # NoneType THEN value.type ELSE inferred.typ,
                !.nargs = IF value.action # "append"
                          THEN (IF value.nargs # "" THEN value.nargs ELSE inferred.nargs)
                          ELSE value.nargs]
    IN  IF override
        THEN [filled EXCEPT !.bool_flag = bool_flag, !.one_dash = one_dash,
                            !.keep_default_help = keep_default_help,
                            !.help_format = help_format]
        ELSE filled
RECURSIVE _read_args(_, _, _, _, _, _, _)

RECURSIVE ReadFields(_, _, _, _, _, _, _, _, _, _)
\* the loop of _read_args over the fields; h holds the explicit descriptor
\* objects as they are when the call starts; a raise stops the loop
ReadFields(ann, fields, i, override, bool_flag, one_dash, keep_default_help, help_format, h, acc) ==
    IF i > Len(fields) \/ acc.err THEN acc
    ELSE LET key == fields[i][1]
             value == fields[i][2]
         IN  IF value.k = "obj" THEN
                 LET sub == _read_args(Classes[SubInstances[value.n].cls], FALSE,
                                       bool_flag, one_dash, keep_default_help,
                                       help_format, h)
                 IN  ReadFields(ann, fields, i + 1, override, bool_flag, one_dash,
                                keep_default_help, help_format, h,
                                [acc EXCEPT !.subs = DictSet(@, key, sub),
                                            !.err = sub.err])
             ELSE IF value.k = "arg" THEN
                 LET inferred == _get_type_and_nargs(ann, key, h[value.n].default)
                 IN  ReadFields(ann, fields, i + 1, override, bool_flag, one_dash,
                                keep_default_help, help_format, h,
                                IF inferred.err THEN [acc EXCEPT !.err = TRUE]
                                ELSE [acc EXCEPT !.args =
                                        Append(@, ReadExplicit(h[value.n], key, inferred,
                                                 override, bool_flag, one_dash,
                                                 keep_default_help, help_format))])
             ELSE
                 LET inferred == _get_type_and_nargs(ann, key, value)
                 IN  ReadFields(ann, fields, i + 1, override, bool_flag, one_dash,
                                keep_default_help, help_format, h,
                                IF inferred.err THEN [acc EXCEPT !.err = TRUE]
                                ELSE [acc EXCEPT !.args =
                                        Append(@, NewArg(0, FALSE, key, value,
                                                 inferred.typ, inferred.nargs, <<>>,
                                                 bool_flag, one_dash,
                                                 keep_default_help, help_format))])

_read_args(args_cls, override, bool_flag, one_dash, keep_default_help, help_format, h) ==
    ReadFields(args_cls.annotations, _get_fields(args_cls, args_cls.annotations), 1,
               override, bool_flag, one_dash, keep_default_help, help_format, h,
               Tree(args_cls.name, <<>>, <<>>, FALSE))

RECURSIVE _get_all_args(_, _)

RECURSIVE AllSubArgs(_, _)
AllSubArgs(sub_commands, i) ==
    IF i > Len(sub_commands) THEN <<>>
    ELSE _get_all_args(sub_commands[i][2].args, sub_commands[i][2].subs)
         \o AllSubArgs(sub_commands, i + 1)

_get_all_args(args, sub_commands) == args \o AllSubArgs(sub_commands, 1)

RECURSIVE WithArgs(_, _)

RECURSIVE WithSubArgs(_, _, _)
WithSubArgs(sub_commands, i, all_args) ==
    IF i > Len(sub_commands) THEN <<>>
    ELSE LET t == sub_commands[i][2]
             n == Len(_get_all_args(t.args, t.subs))
         IN  << <<sub_commands[i][1], WithArgs(t, SubSeq(all_args, 1, n))>> >>
             \o WithSubArgs(sub_commands, i + 1, SubSeq(all_args, n + 1, Len(all_args)))

\* the tree seen through its descriptor objects after they were mutated
\* through the flattened list: all_args lists the same objects, in
\* _get_all_args order
WithArgs(tree, all_args) ==
    [tree EXCEPT !.args = SubSeq(all_args, 1, Len(tree.args)),
                 !.subs = WithSubArgs(tree.subs, 1,
                                      SubSeq(all_args, Len(tree.args) + 1, Len(all_args)))]

RECURSIVE Mutated(_, _, _)
\* the explicit descriptor objects of the classes after the call mutated
\* those it read
Mutated(h, all_args, i) ==
    IF i > Len(all_args) THEN h
    ELSE Mutated(IF all_args[i].id > 0
                 THEN [h EXCEPT ![all_args[i].id] = all_args[i]] ELSE h,
                 all_args, i + 1)

---------------------------------------------------------------------------
(* Parser Builder: the registrations the descriptors make on the           *)
(* underlying parser                                                       *)

UpperLetters ==
    <<"A", "B", "C", "D", "E", "F", "G", "H", "I", "J", "K", "L", "M",
      "N", "O", "P", "Q", "R", "S", "T", "U", "V", "W", "X", "Y", "Z">>

LowerLetters ==
    <<"a", "b", "c", "d", "e", "f", "g", "h", "i", "j", "k", "l", "m",
      "n", "o", "p", "q", "r", "s", "t", "u", "v", "w", "x", "y", "z">>

\* v.lower()
lower(v) ==
    [i \in 1..Len(v) |->
        IF \E j \in 1..Len(UpperLetters) : UpperLetters[j] = v[i]
        THEN LowerLetters[CHOOSE j \in 1..Len(UpperLetters) : UpperLetters[j] = v[i]]
        ELSE v[i]]

TRUE_VALUES ==
    {<<"1">>, <<"t", "r", "u", "e">>, <<"t">>, <<"o", "k", "a", "y">>, <<"o", "k">>,
     <<"a", "f", "f", "i", "r", "m", "a", "t", "i", "v", "e">>, <<"y", "e", "s">>,
     <<"y">>, <<"t", "o", "t", "a", "l", "l", "y">>}

FALSE_VALUES ==
    {<<"0">>, <<"f", "a", "l", "s", "e">>, <<"f">>, <<"n", "o">>, <<"n">>,
     <<"n", "o", "p", "e">>, <<"n", "a", "h">>}

\* a conversion result: the value, or err when the conversion raised
Converted(v) == [err |-> FALSE, v |-> v]
ConversionError == [err |-> TRUE, v |-> None]

str2bool(v) ==
    IF lower(v) \in TRUE_VALUES THEN Converted(True)
    ELSE IF lower(v) \in FALSE_VALUES THEN Converted(False)
    ELSE ConversionError

\* the callable registered as type= for a bool field that is not a flag
Str2Bool == Class("str2bool")

IsDigit(c) == \E j \in 1..Len(DigitChars) : DigitChars[j] = c

DigitValue(c) == (CHOOSE j \in 1..Len(DigitChars) : DigitChars[j] = c) - 1

RECURSIVE PyIntOf(_)
\* int(s) of a string of digits
PyIntOf(s) ==
    IF Len(s) = 1 THEN DigitValue(s[1])
    ELSE 10 * PyIntOf(SubSeq(s, 1, Len(s) - 1)) + DigitValue(s[Len(s)])

\* type(token), as the parser applies the registered type to a token
Convert(type, token) ==
    IF type = NoneType \/ type = str THEN Converted(PyString(token))
    ELSE IF type = Str2Bool THEN str2bool(token)
    ELSE IF type = int THEN
        IF token # <<>> /\ \A i \in 1..Len(token) : IsDigit(token[i])
        THEN Converted(PyInt(PyIntOf(token)))
        ELSE ConversionError
    ELSE IF type = bool THEN Converted(PyBool(token # <<>>))
    ELSE ConversionError

\* Arg.names / PosArg.names; prefix <<>> stands for None
names(arg, prefix) ==
    IF arg.pos THEN <<arg.dest>>
    ELSE LET ns == <<arg.dest>> \o arg.aliases IN
         [i \in 1..Len(ns) |->
             IF Len(prefix \o ns[i]) = 1 \/ arg.one_dash
             THEN <<"-">> \o prefix \o ns[i]
             ELSE <<"-", "-">> \o prefix \o ns[i]]

\* Arg.params / PosArg.params without help and metavar: a None entry is left
\* out of the keywords (dest <<>>, default None, type NoneType, nargs "" and
\* action "" stand for an entry that is left out)
params(arg, exclude, type_override) ==
    [dest |-> IF "dest" \in exclude \/ arg.pos THEN <<>> ELSE arg.dest,
     default |-> arg.default,
     type |-> IF "type" \in exclude THEN NoneType
              ELSE IF type_override # NoneType THEN type_override ELSE arg.type,
     nargs |-> IF "nargs" \in exclude THEN "" ELSE arg.nargs,
     action |-> IF "action" \in exclude THEN "" ELSE arg.action]

\* one registration of the parser
Action(option_strings, dest, action, nargs, type, default, required) ==
    [option_strings |-> option_strings, dest |-> dest, action |-> action,
     nargs |-> nargs, type |-> type, default |-> default, required |-> required]

\* a parser: its registrations in order, the defaults set_defaults recorded,
\* and its sub-command selector (sub_dest <<>> when it has none)
Parser(actions, defaults, sub_dest, subs, err) ==
    [actions |-> actions, defaults |-> defaults, sub_dest |-> sub_dest,
     subs |-> subs, err |-> err]

NoParser == Parser(<<>>, <<>>, <<>>, <<>>, FALSE)

HelpDest == <<"h", "e", "l", "p">>

\* ArgumentParser(...): add_help registers -h/--help
ArgumentParser ==
    Parser(<<Action(<< <<"-", "h">>, <<"-", "-">> \o HelpDest >>, HelpDest, "help",
                    "", NoneType, None, FALSE)>>,
           <<>>, <<>>, <<>>, FALSE)

OptionStrings(parser) ==
    UNION {{parser.actions[i].option_strings[j] :
               j \in 1..Len(parser.actions[i].option_strings)} :
           i \in 1..Len(parser.actions)}

\* parser.add_argument(*name_list, action=action, **keywords): an option
\* string registered twice raises; err records a raise
add_argument(parser, name_list, action, keywords) ==
    LET act == IF action # "" THEN action
               ELSE IF keywords.action # "" THEN keywords.action ELSE "store"
        default == IF keywords.default # None THEN keywords.default
                   ELSE IF act = "store_true" THEN False
                   ELSE IF act = "store_false" THEN True
                   ELSE None
    IN  IF parser.err THEN parser
        ELSE IF ~startswith(name_list[1], <<"-">>) THEN
            IF act # "store" THEN [parser EXCEPT !.err = TRUE]
            ELSE [parser EXCEPT !.actions =
                    Append(@, Action(<<>>, name_list[1], act, keywords.nargs,
                                     keywords.type, default,
                                     keywords.nargs # "*" \/ keywords.default = None))]
        ELSE IF \E i \in 1..Len(name_list) : name_list[i] \in OptionStrings(parser)
            THEN [parser EXCEPT !.err = TRUE]
        ELSE [parser EXCEPT !.actions =
                Append(@, Action(name_list, keywords.dest, act, keywords.nargs,
                                 keywords.type, default, FALSE))]

\* parser.set_defaults(**{dest: default})
set_defaults(parser, dest, default) ==
    [parser EXCEPT
        !.defaults = DictSet(@, dest, default),
        !.actions = [i \in 1..Len(@) |->
                        IF @[i].dest = dest THEN [@[i] EXCEPT !.default = default]
                        ELSE @[i]]]

NoPrefix == <<>>
NoPrefixed == <<"n", "o", "-">>

inject_bool(arg, parser) ==
    IF arg.bool_flag /\ arg.nargs \notin {"*", "+"} THEN
        LET keywords == params(arg, {"type", "nargs", "metavar", "action"}, NoneType) IN
        set_defaults(
            IF arg.default = False
            THEN add_argument(parser, names(arg, NoPrefix), "store_true", keywords)
            ELSE IF arg.default = True
            THEN add_argument(parser, names(arg, NoPrefixed), "store_false", keywords)
            ELSE add_argument(
                     add_argument(parser, names(arg, NoPrefix), "store_true", keywords),
                     names(arg, NoPrefixed), "store_false", keywords),
            arg.dest, arg.default)
    ELSE add_argument(parser, names(arg, NoPrefix), "", params(arg, {}, Str2Bool))

inject(arg, parser) ==
    IF arg.type = bool THEN inject_bool(arg, parser)
    ELSE add_argument(parser, names(arg, NoPrefix), "", params(arg, {}, NoneType))

\* SUB_COMMAND_DEST_FMT.format(name=name): '__{name}_sub_command__'
SUB_COMMAND_DEST_FMT(name) ==
    <<"_", "_">> \o name
    \o <<"_", "s", "u", "b", "_", "c", "o", "m", "m", "a", "n", "d", "_", "_">>

Root == <<"r", "o", "o", "t">>

RECURSIVE InjectAll(_, _, _)
InjectAll(args, i, parser) ==
    IF i > Len(args) THEN parser
    ELSE InjectAll(args, i + 1, inject(args[i], parser))

RECURSIVE _make_parser(_, _, _)

RECURSIVE SubParsers(_, _)
\* sub_parser.add_parser(name, parents=[p], add_help=False): the branch
\* parser takes over the registrations and defaults of p
SubParsers(sub_commands, i) ==
    IF i > Len(sub_commands) THEN <<>>
    ELSE << <<sub_commands[i][1],
              _make_parser(sub_commands[i][1], sub_commands[i][2].args,
                           sub_commands[i][2].subs)>> >>
         \o SubParsers(sub_commands, i + 1)

_make_parser(name, args, sub_commands) ==
    LET parser == InjectAll(args, 1, ArgumentParser) IN
    IF sub_commands = <<>> THEN parser
    ELSE LET subs == SubParsers(sub_commands, 1) IN
         [parser EXCEPT !.sub_dest = SUB_COMMAND_DEST_FMT(name),
                        !.subs = subs,
                        !.err = @ \/ \E i \in 1..Len(subs) : subs[i][2].err]

---------------------------------------------------------------------------
(* The underlying parser at work: parser.parse_args(args_to_parse)         *)

IsNegativeNumber(token) ==
    Len(token) > 1 /\ token[1] = "-" /\ \A i \in 2..Len(token) : IsDigit(token[i])

\* whether the parser reads the token as an option string rather than as an
\* argument
IsOptionToken(parser, token) ==
    /\ token # <<>>
    /\ token[1] = "-"
    /\ \/ token \in OptionStrings(parser)
       \/ /\ Len(token) > 1
          /\ \/ ~IsNegativeNumber(token)
             \/ \E o \in OptionStrings(parser) : IsNegativeNumber(o)

\* what parsing returns: the namespace (a dict), and the sub-command names
\* the command line selected, outermost first; err is a usage error (exit)
Parsed(namespace, chosen) == [err |-> FALSE, ns |-> namespace, chosen |-> chosen]
UsageError == [err |-> TRUE, ns |-> <<>>, chosen |-> <<>>]

RECURSIVE ActionDefaults(_, _, _)
ActionDefaults(actions, i, namespace) ==
    IF i > Len(actions) THEN namespace
    ELSE ActionDefaults(actions, i + 1,
            IF actions[i].action = "help" \/ DictHas(namespace, actions[i].dest)
            THEN namespace
            ELSE DictSet(namespace, actions[i].dest, actions[i].default))

RECURSIVE ParserDefaults(_, _, _)
ParserDefaults(defaults, i, namespace) ==
    IF i > Len(defaults) THEN namespace
    ELSE ParserDefaults(defaults, i + 1,
            IF DictHas(namespace, defaults[i][1]) THEN namespace
            ELSE DictSet(namespace, defaults[i][1], defaults[i][2]))

\* the namespace before any token is read: every registration's default,
\* the sub-command selector's None, then the set_defaults entries
InitialNamespace(parser) ==
    LET ns == ActionDefaults(parser.actions, 1, <<>>)
        withSub == IF parser.sub_dest # <<>> /\ ~DictHas(ns, parser.sub_dest)
                   THEN DictSet(ns, parser.sub_dest, None) ELSE ns
    IN  ParserDefaults(parser.defaults, 1, withSub)

RECURSIVE ArgumentRun(_, _, _)
\* how many tokens from position i on are arguments (not option strings)
ArgumentRun(parser, tokens, i) ==
    IF i > Len(tokens) \/ IsOptionToken(parser, tokens[i]) THEN 0
    ELSE 1 + ArgumentRun(parser, tokens, i + 1)

RECURSIVE ConvertAll(_, _)
ConvertAll(type, tokens) ==
    IF tokens = <<>> THEN [err |-> FALSE, l |-> <<>>]
    ELSE LET c == Convert(type, Head(tokens))
             rest == ConvertAll(type, Tail(tokens))
         IN  [err |-> c.err \/ rest.err, l |-> <<c.v>> \o rest.l]

RECURSIVE MergeNamespace(_, _, _)
\* for key, value in vars(subnamespace).items(): setattr(namespace, key, value)
MergeNamespace(namespace, sub, i) ==
    IF i > Len(sub) THEN namespace
    ELSE MergeNamespace(DictSet(namespace, sub[i][1], sub[i][2]), sub, i + 1)

\* mutant: a string default is handed back as it is
ConvertDefaults_none(actions, i, seen, result) == result

RECURSIVE ConvertDefaults(_, _, _, _)
\* a default that is a string and is still in place goes through the
\* registration's type
ConvertDefaults(actions, i, seen, result) ==
    IF i > Len(actions) \/ result.err THEN result
    ELSE LET a == actions[i] IN
         IF i \notin seen /\ a.action # "help" /\ a.default.k = "str"
            /\ DictGet(result.ns, a.dest, None) = a.default
         THEN LET c == Convert(a.type, a.default.s) IN
              ConvertDefaults(actions, i + 1, seen,
                  IF c.err THEN UsageError
                  ELSE [result EXCEPT !.ns = DictSet(@, a.dest, c.v)])
         ELSE ConvertDefaults(actions, i + 1, seen, result)

\* the end of the command line: a required positional that was not given is
\* a usage error
Finish(parser, namespace, seen, chosen) ==
    IF \E i \in 1..Len(parser.actions) :
          parser.actions[i].required /\ i \notin seen
    THEN UsageError
    ELSE ConvertDefaults(parser.actions, 1, seen, Parsed(namespace, chosen))

\* the option strings a token stands for: itself, or those it abbreviates
OptionMatches(parser, token) ==
    IF token \in OptionStrings(parser) THEN {token}
    ELSE {o \in OptionStrings(parser) : startswith(o, token)}

\* the registration an option string belongs to
ActionOf(parser, token) ==
    CHOOSE i \in 1..Len(parser.actions) :
        \E j \in 1..Len(parser.actions[i].option_strings) :
            parser.actions[i].option_strings[j] = token

\* the next positional registration not yet given (0 when none is left)
NextPositional(parser, seen) ==
    LET open == {i \in 1..Len(parser.actions) :
                    parser.actions[i].option_strings = <<>> /\ i \notin seen}
    IN  IF open = {} THEN 0 ELSE CHOOSE i \in open : \A j \in open : i <= j

\* an option or positional taking values from the n argument tokens that
\* follow position i
StoreValues(a, tokens, i, n) ==
    IF a.nargs = "" THEN
        IF n = 0 THEN [err |-> TRUE, v |-> None, used |-> 0]
        ELSE LET c == Convert(a.type, tokens[i + 1])
             IN  [err |-> c.err, v |-> c.v, used |-> 1]
    ELSE IF a.nargs = "+" /\ n = 0 THEN [err |-> TRUE, v |-> None, used |-> 0]
    ELSE LET c == ConvertAll(a.type, SubSeq(tokens, i + 1, i + n))
         IN  [err |-> c.err, v |-> PyList(c.l), used |-> n]

RECURSIVE parse_known_args(_, _)

RECURSIVE ParseLoop(_, _, _, _, _)
\* the tokens are read left to right, i being the next one; a sub-command
\* name hands the rest of the command line to that branch's parser, whose
\* whole namespace is then copied over this one
ParseLoop(parser, tokens, i, namespace, seen) ==
    IF i > Len(tokens) THEN Finish(parser, namespace, seen, <<>>)
    ELSE IF IsOptionToken(parser, tokens[i]) THEN
        IF Cardinality(OptionMatches(parser, tokens[i])) # 1 THEN UsageError
        ELSE LET k == ActionOf(parser, CHOOSE o \in OptionMatches(parser, tokens[i]) : TRUE)
                 a == parser.actions[k]
             IN  IF a.action = "help" THEN UsageError
                 ELSE IF a.action = "store_true" THEN
                     ParseLoop(parser, tokens, i + 1,
                               DictSet(namespace, a.dest, True), seen \cup {k})
                 ELSE IF a.action = "store_false" THEN
                     ParseLoop(parser, tokens, i + 1,
                               DictSet(namespace, a.dest, False), seen \cup {k})
                 ELSE LET r == StoreValues(a, tokens, i,
                                           ArgumentRun(parser, tokens, i + 1))
                      IN  IF r.err THEN UsageError
                          ELSE ParseLoop(parser, tokens, i + 1 + r.used,
                                         DictSet(namespace, a.dest, r.v),
                                         seen \cup {k})
    ELSE LET k == NextPositional(parser, seen) IN
         IF k # 0 THEN
             LET r == StoreValues(parser.actions[k], tokens, i - 1,
                                  ArgumentRun(parser, tokens, i))
             IN  IF r.err THEN UsageError
                 ELSE ParseLoop(parser, tokens, i + r.used,
                                DictSet(namespace, parser.actions[k].dest, r.v),
                                seen \cup {k})
         ELSE IF parser.sub_dest # <<>> /\ DictHas(parser.subs, tokens[i]) THEN
             LET sub == parse_known_args(DictGet(parser.subs, tokens[i], NoParser),
                                         SubSeq(tokens, i + 1, Len(tokens)))
             IN  IF sub.err THEN UsageError
                 ELSE Finish(parser,
                             MergeNamespace(
                                 DictSet(namespace, parser.sub_dest, PyString(tokens[i])),
                                 sub.ns, 1),
                             seen, <<tokens[i]>> \o sub.chosen)
         ELSE UsageError

parse_known_args(parser, tokens) ==
    ParseLoop(parser, tokens, 1, InitialNamespace(parser), {})

---------------------------------------------------------------------------
(* Value Binder                                                            *)

\* getattr(res, name): the instance's own attribute, else the class attribute
getattr(objects, res, name) ==
    IF DictHas(objects[res.n].dict, name)
    THEN DictGet(objects[res.n].dict, name, None)
    ELSE DictGet(Classes[objects[res.n].cls].dict, name, None)

\* setattr(res, name, value)
setattr(objects, res, name, value) ==
    [objects EXCEPT ![res.n].dict = DictSet(@, name, value)]

\* the objects after binding, or err when binding raised
Bound(objects, err) == [objs |-> objects, err |-> err]

RECURSIVE SetArgs(_, _, _, _, _)
\* for arg in args: setattr(res, arg.dest, namespace.__dict__.get(arg.dest))
SetArgs(res, namespace, args, i, objects) ==
    IF i > Len(args) THEN objects
    ELSE SetArgs(res, namespace, args, i + 1,
                 setattr(objects, res, args[i].dest,
                         DictGet(namespace, args[i].dest, None)))

RECURSIVE _set_values(_, _, _, _, _, _)

RECURSIVE SetSubCommands(_, _, _, _, _, _)
SetSubCommands(parser_name, res, namespace, sub_commands, i, bound) ==
    IF i > Len(sub_commands) \/ bound.err THEN bound
    ELSE LET name == sub_commands[i][1]
             t == sub_commands[i][2]
         IN  IF ~DictHas(namespace, SUB_COMMAND_DEST_FMT(parser_name))
             THEN Bound(bound.objs, TRUE)
             ELSE IF DictGet(namespace, SUB_COMMAND_DEST_FMT(parser_name), None)
                     = PyString(name)
             THEN LET sub == getattr(bound.objs, res, name) IN
                  SetSubCommands(parser_name, res, namespace, sub_commands, i + 1,
                      _set_values(name, sub, namespace, t.args, t.subs,
                                  setattr(bound.objs, res, name, sub)))
             ELSE SetSubCommands(parser_name, res, namespace, sub_commands, i + 1,
                      Bound(setattr(bound.objs, res, name, None), FALSE))

\* res None (a sub-command instance an earlier call set to None) raises
\* AttributeError as soon as an attribute is set on it
_set_values(parser_name, res, namespace, args, sub_commands, objects) ==
    IF res.k # "obj"
    THEN Bound(objects, args # <<>> \/ sub_commands # <<>>)
    ELSE SetSubCommands(parser_name, res, namespace, sub_commands, 1,
                        Bound(SetArgs(res, namespace, args, 1, objects), FALSE))

\* stringify(args): the class name and the name=value pairs of args.__dict__
stringify(objects, args) ==
    [name |-> objects[args.n].cls, pairs |-> objects[args.n].dict]

---------------------------------------------------------------------------
(* parse_args: calls on one structure definition, one after the other      *)

MaxCalls == 2

\* the keyword options of parse_args that reach the descriptors
Options(make_shortcuts, bool_flag, one_dash, keep_default_help, help_format, override) ==
    [make_shortcuts |-> make_shortcuts, bool_flag |-> bool_flag,
     one_dash |-> one_dash, keep_default_help |-> keep_default_help,
     help_format |-> help_format, override |-> override]

\* make_shortcuts=True, bool_flag=True, one_dash=False,
\* keep_default_help=True, help_format=DEFAULT_HELP_FORMAT, override=False
DefaultOptions == Options(TRUE, TRUE, FALSE, TRUE, DEFAULT_HELP_FORMAT, FALSE)

OptionSets ==
    { DefaultOptions,
      Options(FALSE, TRUE, FALSE, TRUE, DEFAULT_HELP_FORMAT, FALSE),
      Options(TRUE, FALSE, TRUE, FALSE, CUSTOM_HELP_FORMAT, FALSE),
      Options(TRUE, FALSE, TRUE, FALSE, CUSTOM_HELP_FORMAT, TRUE) }

\* the command lines each structure definition is called with
TokenLists(name) ==
    CASE name = "Plain" ->
           { <<>>,
             <<<<"-", "-", "v", "b">>>>,
             <<<<"-", "v">>>>,
             <<<<"-", "-", "n", "o", "-", "v", "b">>>>,
             <<<<"-", "-", "n", "o", "-", "v">>>>,
             <<<<"-", "-", "v", "b">>, <<"-", "-", "n", "o", "-", "v", "b">>>>,
             <<<<"-", "n">>, <<"5">>>>,
             <<<<"-", "n">>, <<"x">>>>,
             <<<<"-", "-", "l", "s">>, <<"1">>, <<"2">>>>,
             <<<<"-", "v", "b">>, <<"y", "e", "s">>>>,
             <<<<"-", "h">>>> }
      [] name = "Flags" ->
           { <<>>,
             <<<<"-", "-", "u", "p">>>>,
             <<<<"-", "-", "n", "o", "-", "u", "p">>>>,
             <<<<"-", "u">>>>,
             <<<<"-", "-", "n", "o", "-", "o", "n">>>>,
             <<<<"-", "-", "o", "f", "f">>>>,
             <<<<"-", "-", "o", "n">>>>,
             <<<<"-", "-", "s", "5">>, <<"7">>>> }
      [] name = "Explicit" ->
           { <<>>,
             <<<<"-", "-", "b", "a", "r">>, <<"7">>>>,
             <<<<"-", "b">>, <<"7">>>>,
             <<<<"-", "q">>, <<"y", "e", "s">>>>,
             <<<<"-", "q">>, <<"m", "a", "y", "b", "e">>>>,
             <<<<"-", "-", "a", "_", "b">>, <<"1">>, <<"2">>>>,
             <<<<"-", "-", "a", "_", "b">>>> }
      [] name = "Positional" ->
           { <<>>,
             <<<<"5">>>>,
             <<<<"5">>, <<"-", "n">>, <<"2">>>>,
             <<<<"-", "n">>, <<"2">>>> }
      [] name = "Clash" ->
           { <<>>,
             <<<<"-", "-", "a", "b">>, <<"2">>>> }
      [] name = "Under" ->
           { <<>>,
             <<<<"-", "-", "a", "_">>, <<"2">>>> }
      [] name = "Cmd" ->
           { <<>>,
             <<<<"a">>>>,
             <<<<"a">>, <<"-", "n">>, <<"5">>>>,
             <<<<"b">>>>,
             <<<<"z", "z">>>>,
             <<<<"-", "w">>, <<"a">>>>,
             <<<<"-", "-", "n", "o", "-", "w">>, <<"a">>>>,
             <<<<"a">>, <<"-", "w">>>>,
             <<<<"-", "y">>, <<"n", "o">>, <<"b">>>> }
      [] name = "Nested" ->
           { <<>>,
             <<<<"a">>>>,
             <<<<"a">>, <<"x">>>>,
             <<<<"a">>, <<"x">>, <<"-", "q">>, <<"3">>>> }
      [] name = "RootCmd" ->
           { <<>>,
             <<<<"r", "o", "o", "t">>>>,
             <<<<"r", "o", "o", "t">>, <<"x">>>> }
      [] name = "Repeat" ->
           { <<>>,
             <<<<"-", "-", "a", "_", "b">>, <<"3">>>> }

NoCall == [opts |-> DefaultOptions, tokens |-> <<>>, n |-> 0, heap0 |-> ArgObjects]

NoTree == Tree("", <<>>, <<>>, FALSE)

Returned == {"idle", "done", "raised", "exit"}

\* lines 472-479: the Field Reader; the explicit descriptor objects it
\* filled in stay filled in
ReadArgs(opts, tokens) ==
    /\ pc \in Returned
    /\ call.n < MaxCalls
    /\ LET t == _read_args(Classes[root_cls], opts.override, opts.bool_flag,
                           opts.one_dash, opts.keep_default_help,
                           opts.help_format, heap)
       IN  /\ call' = [opts |-> opts, tokens |-> tokens, n |-> call.n + 1,
                       heap0 |-> heap]
           /\ read' = t
           /\ heap' = Mutated(heap, _get_all_args(t.args, t.subs), 1)
           /\ pc' = IF t.err THEN "raised" ELSE "read"
    /\ built' = NoParser
    /\ parsed' = UsageError
    /\ UNCHANGED <<root_cls, objs, results, inf, sc>>

\* lines 480-482
MakeShortcuts ==
    /\ pc = "read"
    /\ IF call.opts.make_shortcuts
       THEN LET r == _make_shortcuts(_get_all_args(read.args, read.subs))
            IN  /\ read' = WithArgs(read, r.args)
                /\ heap' = Mutated(heap, r.args, 1)
                /\ pc' = IF r.err THEN "raised" ELSE "shortcuts"
       ELSE /\ pc' = "shortcuts"
            /\ UNCHANGED <<read, heap>>
    /\ UNCHANGED <<root_cls, objs, call, built, parsed, results, inf, sc>>

\* line 486
MakeParser ==
    /\ pc = "shortcuts"
    /\ built' = _make_parser(Root, read.args, read.subs)
    /\ pc' = IF built'.err THEN "raised" ELSE "built"
    /\ UNCHANGED <<root_cls, heap, objs, call, read, parsed, results, inf, sc>>

\* line 488: a usage error (or -h) exits
ParseTokens ==
    /\ pc = "built"
    /\ parsed' = parse_known_args(built, call.tokens)
    /\ pc' = IF parsed'.err THEN "exit" ELSE "parsed"
    /\ UNCHANGED <<root_cls, heap, objs, call, read, built, results, inf, sc>>

\* lines 491-495: result = sub_command(args_cls) is a new instance of
\* args_cls; the Value Binder populates it
SetValues ==
    /\ pc = "parsed"
    /\ LET result == PyRef(Len(objs) + 1)
           b == _set_values(Root, result, parsed.ns, read.args, read.subs,
                            Append(objs, [cls |-> root_cls, dict |-> <<>>]))
       IN  /\ objs' = b.objs
           /\ pc' = IF b.err THEN "raised" ELSE "done"
           /\ results' = IF b.err THEN results
                         ELSE Append(results, [result |-> result, call |-> call,
                                               tree |-> read, objs |-> b.objs,
                                               chosen |-> parsed.chosen])
    /\ UNCHANGED <<root_cls, heap, call, read, built, parsed, inf, sc>>

MainIdle ==
    /\ heap = ArgObjects
    /\ objs = SubInstances
    /\ pc = "idle"
    /\ call = NoCall
    /\ read = NoTree
    /\ built = NoParser
    /\ parsed = UsageError
    /\ results = <<>>

---------------------------------------------------------------------------
(* Specification of the Type/Arity Inferencer on its own: one field f,     *)
(* any annotation, any default                                             *)

FieldF == <<"f">>

Annotations ==
    {str, int, bool, list, List, ListOf(int), ListOf(str), ListOf(ListOf(int)),
     SequenceOf(int), DictOf(str, int)}

AnnDicts == {<<>>} \cup {<< <<FieldF, t>> >> : t \in Annotations}

Defaults ==
    {None, PyInt(0), PyInt(1), PyString(<<>>), PyString(<<"x">>), True, False,
     PyList(<<>>), PyList(<<PyInt(1)>>), PyList(<<PyString(<<"x">>)>>),
     PyList(<<PyInt(1), PyString(<<"x">>)>>),
     PyList(<<PyString(<<"x">>), PyInt(1)>>)}

InfIdle == [ann |-> <<>>, default |-> None, done |-> FALSE,
            res |-> Inferred(NoneType, "", FALSE)]

InferInputs ==
    {[InfIdle EXCEPT !.ann = a, !.default = d] : a \in AnnDicts, d \in Defaults}

Infer ==
    /\ ~inf.done
    /\ inf' = [inf EXCEPT !.done = TRUE,
                          !.res = _get_type_and_nargs(inf.ann, FieldF, inf.default)]
    /\ UNCHANGED <<main, sc>>

---------------------------------------------------------------------------
(* Specification of the Shortcut Assigner on its own: any flattened        *)
(* descriptor list, run MaxRuns times over the same objects                *)

MaxArgs == 3
MaxRuns == 2

DestPool ==
    {<<"a">>, <<"a", "b">>, <<"a", "c">>, <<"a", "_", "b">>, <<"a", "_", "2">>,
     <<"a", "2">>, <<"a", "b", "_">>}

AliasPool == {<<>>, << <<"a">> >>}

ShortcutArgs ==
    {NewArg(0, FALSE, d, None, str, "", al, TRUE, FALSE, TRUE, DEFAULT_HELP_FORMAT) :
        d \in DestPool, al \in AliasPool}

ScIdle == [input |-> <<>>, out |-> <<>>]

ShortcutInputs ==
    {[ScIdle EXCEPT !.input = l] :
        l \in UNION {[1..n -> ShortcutArgs] : n \in 1..MaxArgs}}

\* the descriptor objects as the last run left them
ScCurrent == IF sc.out = <<>> THEN sc.input ELSE sc.out[Len(sc.out)].args

RunShortcuts ==
    /\ Len(sc.out) < MaxRuns
    /\ sc' = [sc EXCEPT !.out = Append(@, _make_shortcuts(ScCurrent))]
    /\ UNCHANGED <<main, inf>>

---------------------------------------------------------------------------

Init ==
    /\ root_cls \in RootClasses
    /\ MainIdle
    /\ inf = InfIdle
    /\ sc = ScIdle

Next ==
    \/ \E opts \in OptionSets, tokens \in TokenLists(root_cls) : ReadArgs(opts, tokens)
    \/ MakeShortcuts
    \/ MakeParser
    \/ ParseTokens
    \/ SetValues

Spec == Init /\ [][Next]_vars

InitInfer ==
    /\ inf \in InferInputs
    /\ sc = ScIdle
    /\ root_cls = "Plain"
    /\ MainIdle

NextInfer == Infer

SpecInfer == InitInfer /\ [][NextInfer]_vars

InitShortcuts ==
    /\ sc \in ShortcutInputs
    /\ inf = InfIdle
    /\ root_cls = "Plain"
    /\ MainIdle

NextShortcuts == RunShortcuts

SpecShortcuts == InitShortcuts /\ [][NextShortcuts]_vars

---------------------------------------------------------------------------
(* Claims about the Type/Arity Inferencer (SpecInfer)                      *)

\* the type inference starts from: the annotation if present, else the type
\* of the default, else str
DeclaredType ==
    IF DictHas(inf.ann, FieldF) THEN DictGet(inf.ann, FieldF, NoneType)
    ELSE IF inf.default = None THEN str ELSE TypeOf(inf.default)

DefaultIsList == inf.default.k = "list"

DefaultEmptyOrAbsent == inf.default = None \/ inf.default = PyList(<<>>)

AnnotationIsListGeneric ==
    DictHas(inf.ann, FieldF) /\ DictGet(inf.ann, FieldF, NoneType).origin \in ListBases

---------------------------------------------------------------------------
(* Claims about the Shortcut Assigner (SpecShortcuts)                      *)

\* the descriptor list run k started from, and what it returned
ScIn(k) == IF k = 1 THEN sc.input ELSE sc.out[k - 1].args
ScOut(k) == sc.out[k]

Cardinal(S) == Cardinality(S)

\* descriptor j of list l gets a candidate that is not its own name
Generates(l, j) ==
    /\ l[j].aliases = <<>>
    /\ ~Initials(l[j].dest).err
    /\ Initials(l[j].dest).a # l[j].dest

\* the first descriptor the run raises on (Len + 1 when it completes)
FailIndex(l) ==
    IF \E i \in 1..Len(l) : l[i].aliases = <<>> /\ Initials(l[i].dest).err
    THEN CHOOSE i \in 1..Len(l) :
            /\ l[i].aliases = <<>> /\ Initials(l[i].dest).err
            /\ \A j \in 1..(i - 1) : ~(l[j].aliases = <<>> /\ Initials(l[j].dest).err)
    ELSE Len(l) + 1

\* how many descriptors up to i produced the candidate of i
GeneratedSoFar(l, i) ==
    Cardinal({j \in 1..i : Generates(l, j)
                              /\ Initials(l[j].dest).a = Initials(l[i].dest).a})

\* how many descriptors of the whole list are named as the candidate of i
NamedAs(l, i) ==
    Cardinal({j \in 1..Len(l) : l[j].dest = Initials(l[i].dest).a})

Suffixed(c, n) == IF n = 1 THEN c ELSE c \o PyStr(n)

\* C10 as stated: the N-th descriptor producing a candidate, N counted over
\* the generated candidates alone, gets the candidate (N = 1) or the candidate
\* with N appended
C10_AsStated ==
    \A k \in 1..Len(sc.out) :
        ~ScOut(k).err =>
            \A i \in 1..Len(ScIn(k)) :
                Generates(ScIn(k), i) =>
                    ScOut(k).args[i].aliases =
                        <<Suffixed(Initials(ScIn(k)[i].dest).a,
                                   GeneratedSoFar(ScIn(k), i))>>

\* C10 (amended): for each descriptor with an empty alias set, in list order,
\* the candidate is the initials of the underscore-separated segments of its
\* destination; a candidate equal to the destination yields no alias;
\* otherwise the alias is the candidate when N = 1 and the candidate with N
\* appended when N >= 2, where N counts the descriptors of the whole list
\* whose destination equals the candidate plus the descriptors so far that
\* produced it.  A destination with an empty segment makes the run raise,
\* leaving that descriptor and all later ones untouched.
C10_Shortcuts ==
    \A k \in 1..Len(sc.out) :
        LET l == ScIn(k)
            r == ScOut(k)
            f == FailIndex(l)
        IN  /\ r.err = (f <= Len(l))
            /\ Len(r.args) = Len(l)
            /\ \A i \in 1..Len(l) :
                  IF i < f /\ Generates(l, i)
                  THEN r.args[i] =
                         [l[i] EXCEPT !.aliases =
                             <<Suffixed(Initials(l[i].dest).a,
                                        NamedAs(l, i) + GeneratedSoFar(l, i))>>]
                  ELSE r.args[i] = l[i]

\* a first producer of a candidate that is also a destination gets suffix 2
C10_Witness ==
    /\ sc.out # <<>>
    /\ ~ScOut(1).err
    /\ \E i \in 1..Len(sc.input) :
          /\ Generates(sc.input, i)
          /\ GeneratedSoFar(sc.input, i) = 1
          /\ NamedAs(sc.input, i) = 1
          /\ ScOut(1).args[i].aliases = <<Initials(sc.input[i].dest).a \o <<"2">>>>

\* C4: after a run, no generated alias equals a destination of the list, an
\* explicitly declared alias of another descriptor, or the generated alias of
\* another descriptor
C4_CollisionFree ==
    (sc.out # <<>> /\ ~ScOut(1).err) =>
        \A i \in 1..Len(sc.input) :
            Generates(sc.input, i) =>
                LET g == ScOut(1).args[i].aliases[1] IN
                /\ \A j \in 1..Len(sc.input) : sc.input[j].dest # g
                /\ \A j \in 1..Len(sc.input) :
                      j # i =>
                        /\ \A n \in 1..Len(sc.input[j].aliases) :
                              sc.input[j].aliases[n] # g
                        /\ Generates(sc.input, j) =>
                              ScOut(1).args[j].aliases[1] # g

\* C5: a second run (and any later one) over the same descriptor objects
\* leaves every alias set as the first run left it
C5_Idempotent ==
    \A k \in 2..Len(sc.out) :
        \A i \in 1..Len(sc.input) :
            ScOut(k).args[i].aliases = ScOut(1).args[i].aliases

\* two runs done, the first of which generated a suffixed alias
C5_Witness ==
    /\ Len(sc.out) >= 2
    /\ \E i \in 1..Len(sc.input) :
          /\ Generates(sc.input, i)
          /\ Len(ScOut(1).args[i].aliases[1]) > Len(Initials(sc.input[i].dest).a)
          /\ ScOut(2).args[i] = ScOut(1).args[i]

---------------------------------------------------------------------------
(* Claims about parse_args (Spec)                                          *)

\* the declared fields of a class, in declaration order (an inner class is
\* not a field)
DeclaredFields(name) == SelectSeq(Classes[name].decl, LAMBDA d : d.val.k # "type")

HasSubCommands(name) ==
    \E i \in 1..Len(Classes[name].decl) : Classes[name].decl[i].val.k = "obj"

\* the declared default of a field: the class-level value, the default of
\* an explicit Arg/PosArg object, None for an annotation-only field
DeclaredDefault(d, h) == IF d.val.k = "arg" THEN h[d.val.n].default ELSE d.val

\* the name a field's value is bound under
Destination(d, h) ==
    IF d.val.k = "arg" /\ h[d.val.n].dest # <<>> THEN h[d.val.n].dest ELSE d.key

\* the type a field's command-line values are converted with
FieldType(name, d, h) ==
    IF d.val.k = "arg" /\ h[d.val.n].type # NoneType THEN h[d.val.n].type
    ELSE _get_type_and_nargs(Classes[name].annotations, d.key, DeclaredDefault(d, h)).typ

\* the declared default as the parser hands it back: a string goes through
\* the field's type
ConvertedDefault(name, d, h) ==
    LET default == DeclaredDefault(d, h) IN
    IF default.k = "str" /\ FieldType(name, d, h) # bool
    THEN Convert(FieldType(name, d, h), default.s).v
    ELSE default

\* the Result Instance the call that just returned handed back
Last == results[Len(results)]

EmptyCallEnded ==
    /\ pc \in {"done", "raised", "exit"}
    /\ ~HasSubCommands(root_cls)
    /\ call.tokens = <<>>

RECURSIVE Exclusive(_, _, _, _)
\* in the scope bound to res, the field of the selected sub-command is an
\* instance (and its scope is exclusive too), every other sibling is None
Exclusive(objects, res, t, chosen) ==
    \A i \in 1..Len(t.subs) :
        LET name == t.subs[i][1]
            v == getattr(objects, res, name)
        IN  IF chosen # <<>> /\ name = Head(chosen)
            THEN v.k = "obj" /\ Exclusive(objects, v, t.subs[i][2], Tail(chosen))
            ELSE v = None

\* C2 as stated: after a successful parse, in every bound scope the field of
\* the selected sub-command is a populated instance and every other sibling
\* sub-command field is None
C2_AsStated ==
    pc = "done" => Exclusive(objs, Last.result, read, parsed.chosen)

\* the tokens given to the top-level scope: those before the sub-command name
RootTokens ==
    LET cut == {i \in 1..Len(call.tokens) : DictHas(read.subs, call.tokens[i])}
    IN  IF cut = {} THEN call.tokens
        ELSE SubSeq(call.tokens, 1, (CHOOSE i \in cut : \A j \in cut : i <= j) - 1)

\* one of a field's flags is on the command line, spelled out or abbreviated
Given(name_list) ==
    \E i \in 1..Len(RootTokens) : \E j \in 1..Len(name_list) :
        OptionMatches(built, RootTokens[i]) = {name_list[j]}

\* a boolean field in bool-flag mode whose default is neither True nor False
UnresolvedFlag(arg) ==
    arg.type = bool /\ arg.bool_flag /\ arg.default # True /\ arg.default # False

\* a spelling (or an abbreviation) of one of a field's flags is somewhere on
\* the command line, in whatever scope
Spelled(name_list) ==
    \E i \in 1..Len(call.tokens) : \E j \in 1..Len(name_list) :
        startswith(name_list[j], call.tokens[i])

\* C3 as stated: for every boolean field in bool-flag mode whose default is
\* neither True nor False, only the affirmative flag binds True, only the
\* negated flag binds False, neither leaves the declared default
C3_AsStated ==
    pc = "done" =>
        \A i \in 1..Len(read.args) :
            LET arg == read.args[i]
                affirmative == names(arg, NoPrefix)
                negated == names(arg, NoPrefixed)
                bound == getattr(objs, Last.result, arg.dest)
            IN  UnresolvedFlag(arg) =>
                    /\ (Given(affirmative) /\ ~Spelled(negated)) => bound = True
                    /\ (Given(negated) /\ ~Spelled(affirmative)) => bound = False
                    /\ (~Spelled(affirmative) /\ ~Spelled(negated))
                          => bound = arg.default

RECURSIVE Reach(_, _)
\* the objects a Result Instance is made of: itself and its nested instances
Reach(objects, id) ==
    {id} \cup UNION {Reach(objects, objects[id].dict[i][2].n) :
                        i \in {j \in 1..Len(objects[id].dict) :
                                  objects[id].dict[j][2].k = "obj"}}

\* C6 as stated: no result object (top-level or nested) of one call is the
\* same object as, or is modified by, a result of another call
C6_AsStated ==
    \A i \in 1..Len(results) :
        /\ \A id \in Reach(results[i].objs, results[i].result.n) :
              objs[id] = results[i].objs[id]
        /\ \A j \in 1..Len(results) :
              i < j => Reach(results[i].objs, results[i].result.n)
                         \cap Reach(results[j].objs, results[j].result.n) = {}

\* C7 as stated: the string representation of a Result Instance lists every
\* declared field exactly once, in declaration order
C7_AsStated ==
    pc = "done" =>
        DictKeys(stringify(objs, Last.result).pairs)
            = [i \in 1..Len(DeclaredFields(root_cls)) |-> DeclaredFields(root_cls)[i].key]

\* the explicit Arg objects of the whole descriptor tree
ExplicitArgs ==
    {_get_all_args(read.args, read.subs)[i].id :
        i \in 1..Len(_get_all_args(read.args, read.subs))} \ {0}

\* C8 as stated: after the Field Reader, with override on every explicit Arg
\* of the whole tree has the call's global settings; with override off every
\* attribute the user set is unchanged, only a missing destination, type and
\* arity are filled in
C8_AsStated ==
    pc = "read" =>
        \A id \in ExplicitArgs :
            IF call.opts.override
            THEN /\ heap[id].bool_flag = call.opts.bool_flag
                 /\ heap[id].one_dash = call.opts.one_dash
                 /\ heap[id].keep_default_help = call.opts.keep_default_help
                 /\ heap[id].help_format = call.opts.help_format
            ELSE LET before == call.heap0[id] IN
                 /\ [heap[id] EXCEPT !.dest = <<>>, !.type = NoneType, !.nargs = ""]
                      = [before EXCEPT !.dest = <<>>, !.type = NoneType, !.nargs = ""]
                 /\ before.dest # <<>> => heap[id].dest = before.dest
                 /\ before.type # NoneType => heap[id].type = before.type
                 /\ before.nargs # "" => heap[id].nargs = before.nargs

RECURSIVE PathTrees(_, _)
\* the scopes the command line selected, outermost first
PathTrees(t, chosen) ==
    <<t>> \o (IF chosen = <<>> THEN <<>>
              ELSE PathTrees(DictGet(t.subs, Head(chosen), NoTree), Tail(chosen)))

\* the name is a field's destination in another selected scope as well
SharedName(dest, path, k) ==
    \E m \in 1..Len(path) : m # k /\ \E i \in 1..Len(path[m].args) :
        path[m].args[i].dest = dest

\* the tokens given to a scope: those before its sub-command name
OwnTokens(t, tokens) ==
    LET cut == {i \in 1..Len(tokens) : DictHas(t.subs, tokens[i])}
    IN  IF cut = {} THEN tokens
        ELSE SubSeq(tokens, 1, (CHOOSE i \in cut : \A j \in cut : i <= j) - 1)

RECURSIVE ScopesApart(_, _, _, _, _, _, _)
\* in the k-th selected scope, bound to res, every field whose name another
\* selected scope has too holds what this scope's parser makes of this
\* scope's tokens; the same in the scopes below
ScopesApart(objects, res, scope_parser, tokens, chosen, path, k) ==
    LET own == OwnTokens(path[k], tokens)
        alone == parse_known_args(scope_parser, own)
    IN  /\ \A i \in 1..Len(path[k].args) :
              LET dest == path[k].args[i].dest IN
              (SharedName(dest, path, k) /\ ~alone.err) =>
                  getattr(objects, res, dest) = DictGet(alone.ns, dest, None)
        /\ (chosen # <<>> /\ getattr(objects, res, Head(chosen)).k = "obj") =>
              ScopesApart(objects, getattr(objects, res, Head(chosen)),
                          DictGet(scope_parser.subs, Head(chosen), NoParser),
                          SubSeq(tokens, Len(own) + 2, Len(tokens)),
                          Tail(chosen), path, k + 1)

\* C11 as stated: when fields of two selected scopes have the same name,
\* each is bound to the value parsed for its own scope; neither a value
\* given in one scope nor the default of one scope shows up in the other
C11_AsStated ==
    pc = "done" =>
        ScopesApart(objs, Last.result, built, call.tokens, parsed.chosen,
                    PathTrees(read, parsed.chosen), 1)

RECURSIVE FieldValues(_, _)
\* the field values of a Result Instance, nested instances by their own
\* field values and not by identity
FieldValues(objects, v) ==
    IF v.k # "obj" THEN [value |-> v, fields |-> <<>>]
    ELSE [value |-> PyRef(0),
          fields |-> [i \in 1..Len(objects[v.n].dict) |->
                        <<objects[v.n].dict[i][1],
                          FieldValues(objects, objects[v.n].dict[i][2])>>]]

\* the flag spellings (destination and aliases, affirmative and negated) of
\* every field of the whole tree
Spellings(t) ==
    LET all_args == _get_all_args(t.args, t.subs) IN
    [i \in 1..Len(all_args) |->
        <<names(all_args[i], NoPrefix), names(all_args[i], NoPrefixed)>>]

\* the second call has ended, and the first call had the same options and
\* tokens and returned
RepeatedCallEnded ==
    /\ call.n = 2
    /\ pc \in {"done", "raised", "exit"}
    /\ results # <<>>
    /\ results[1].call.n = 1
    /\ results[1].call.opts = call.opts
    /\ results[1].call.tokens = call.tokens

\* C12 as stated: if a first parse_args call succeeds, a second call on the
\* same definition with the same options and tokens succeeds too, registers
\* the same flag spellings and aliases for every field and returns equal
\* field values
C12_AsStated ==
    RepeatedCallEnded =>
        /\ pc = "done"
        /\ Spellings(results[2].tree) = Spellings(results[1].tree)
        /\ FieldValues(results[2].objs, results[2].result)
             = FieldValues(results[1].objs, results[1].result)

====
